---- MODULE Spec2Model ----
(***************************************************************************)
(* The campaign provisioning pipeline of examples/migration:              *)
(*   CreateCompleteCampaignBothApisPhase1.py   (script "BothApisPhase1")   *)
(*   CreateCompleteCampaignGoogleAdsApiOnly.py (script "GoogleAdsApiOnly") *)
(* Each script loads two clients, parses its arguments and then runs five  *)
(* functions in a row.  Every function builds a mutate request, calls the  *)
(* remote service and, where the code does so, reads the created resource  *)
(* back with a search request.  The remote service is the environment: it  *)
(* answers every request either with a result or with an error, and it     *)
(* assigns the identifiers of what it creates.                             *)
(***************************************************************************)
EXTENDS Naturals, Integers, Sequences, FiniteSets, TLC

VARIABLES
    script,             \* which of the two scripts runs
    pc,                 \* [fn, at]: the function main is in, and the place in it
    google_ads_client,  \* main's google_ads_client: "unset" | "loaded"
    adwords_client,     \* main's adwords_client:    "unset" | "loaded"
    keywordsArg,        \* the list bound to createKeywords' keywords parameter
    ret,                \* what each step's function has returned to main
    newNames,           \* resource names taken from the last mutate response
    printed,            \* confirmation lines printed, per step
    server,             \* the resources that exist server-side
    log                 \* the requests the remote services have received

vars == <<script, pc, google_ads_client, adwords_client, keywordsArg, ret,
          newNames, printed, server, log>>

(***************************************************************************)
(* Bounds of the model.                                                    *)
(***************************************************************************)
\* The server draws the first identifier of a mutate from 1..MaxId.
MaxId == 2
\* createKeywords, called on its own, gets lists of at most MaxKwLen keywords.
MaxKwLen == 2

(***************************************************************************)
(* Program constants.                                                      *)
(***************************************************************************)
NUMBER_OF_ADS == 5
KEYWORDS_TO_ADD == <<"mars cruise", "space hotel">>

Scripts == {"BothApisPhase1", "GoogleAdsApiOnly"}
StepOrder == <<"Budget", "Campaign", "AdGroup", "TextAds", "Keywords">>
Steps == {StepOrder[i] : i \in 1..Len(StepOrder)}
\* Keyword texts a caller of createKeywords may pass.
KwUniverse == {"mars cruise", "space hotel", "moon base"}

NoName == <<>>
NoId == 0
Unset == [tag |-> "unset", id |-> NoId, resource_name |-> NoName]
\* Python's None: what a function without a return statement gives back.
PyNone == [tag |-> "None", id |-> NoId, resource_name |-> NoName]
NoQuery == [from |-> "", names |-> <<>>, critType |-> "",
            adGroupStatus |-> "", statuses |-> {}]

MainAt(a) == [fn |-> "main", at |-> a]
ErrorPc == MainAt("error")
DonePc == MainAt("done")

(***************************************************************************)
(* main: the order of the five calls, the client and the argument each     *)
(* call gets.                                                              *)
(***************************************************************************)
NextStepSkipAds(step) ==
    CASE step = "Budget" -> "Campaign"
      [] step = "Campaign" -> "AdGroup"
      [] step = "AdGroup" -> "Keywords"
      [] OTHER -> "Keywords"

NextStep(step) ==
    CASE step = "Budget" -> "Campaign"
      [] step = "Campaign" -> "AdGroup"
      [] step = "AdGroup" -> "TextAds"
      [] OTHER -> "Keywords"

AfterStep(step) ==
    IF step = "Keywords" THEN DonePc
    ELSE [fn |-> NextStep(step), at |-> "mutate"]

\* The client object main passes to the step's function.
ClientOf(s, step) ==
    IF s = "GoogleAdsApiOnly" \/ step = "Budget" THEN "GoogleAds" ELSE "AdWords"

\* The step whose returned value main passes to the step's function.
ArgSourceShifted(step) ==
    CASE step = "Campaign" -> "Budget"
      [] step = "AdGroup" -> "Campaign"
      [] step = "TextAds" -> "Campaign"
      [] OTHER -> "Campaign"

ArgSourcePrevious(step) ==
    CASE step = "Campaign" -> "Budget"
      [] step = "AdGroup" -> "Campaign"
      [] step = "TextAds" -> "AdGroup"
      [] OTHER -> "TextAds"

ArgSource(step) ==
    CASE step = "Campaign" -> "Budget"
      [] step = "AdGroup" -> "Campaign"
      [] step = "TextAds" -> "AdGroup"
      [] OTHER -> "AdGroup"

\* The argument expression of main's call: BothApisPhase1 passes
\* budget.id.value to createCampaign, every other call passes the variable.
ArgOf(s, step, r) ==
    IF step = "Budget" THEN PyNone
    ELSE IF s = "BothApisPhase1" /\ step = "Campaign"
         THEN [tag |-> "id", id |-> r[ArgSource(step)].id,
               resource_name |-> NoName]
         ELSE r[ArgSource(step)]

\* An uncaught exception ends the process: no function has a try statement.
OnExceptionSwallow(step) == AfterStep(step)

OnExceptionRetry(step) == [fn |-> step, at |-> "mutate"]

OnException(step) == ErrorPc

(***************************************************************************)
(* The request builders.  An operation carries the fields the claims are   *)
(* about; the fields a function does not set keep their empty value.       *)
(***************************************************************************)
EmptyOp == [operator |-> "", kind |-> "", parentId |-> NoId,
            parentName |-> NoName, status |-> "", text |-> "",
            matchType |-> "", amount |-> 0]

ServiceOf(s, step) ==
    CASE step = "Budget" -> "CampaignBudgetService"
      [] step = "Campaign" -> "CampaignService"
      [] step = "AdGroup" -> "AdGroupService"
      [] step = "TextAds" -> "AdGroupAdService"
      [] OTHER -> "AdGroupCriterionService"

createCampaignBudgetOpsCheap(s) ==
    << [EmptyOp EXCEPT !.operator = "create", !.kind = "Budget",
                       !.amount = 50000] >>

createCampaignBudgetOps(s) ==
    << [EmptyOp EXCEPT !.operator = "create", !.kind = "Budget",
                       !.amount = 500000] >>

createCampaignOpsEnabled(s, arg) ==
    IF s = "GoogleAdsApiOnly"
    THEN << [EmptyOp EXCEPT !.operator = "create", !.kind = "Campaign",
                            !.status = "ENABLED",
                            !.parentName = arg.resource_name] >>
    ELSE << [EmptyOp EXCEPT !.operator = "ADD", !.kind = "Campaign",
                            !.status = "ENABLED", !.parentId = arg.id] >>

createCampaignOps(s, arg) ==
    IF s = "GoogleAdsApiOnly"
    THEN << [EmptyOp EXCEPT !.operator = "create", !.kind = "Campaign",
                            !.status = "PAUSED",
                            !.parentName = arg.resource_name] >>
    ELSE << [EmptyOp EXCEPT !.operator = "ADD", !.kind = "Campaign",
                            !.status = "PAUSED", !.parentId = arg.id] >>

createAdGroupOpsPaused(s, arg) ==
    IF s = "GoogleAdsApiOnly"
    THEN << [EmptyOp EXCEPT !.operator = "create", !.kind = "AdGroup",
                            !.status = "PAUSED",
                            !.parentName = arg.resource_name] >>
    ELSE << [EmptyOp EXCEPT !.operator = "ADD", !.kind = "AdGroup",
                            !.status = "PAUSED", !.parentId = arg.id] >>

createAdGroupOps(s, arg) ==
    IF s = "GoogleAdsApiOnly"
    THEN << [EmptyOp EXCEPT !.operator = "create", !.kind = "AdGroup",
                            !.status = "ENABLED",
                            !.parentName = arg.resource_name] >>
    ELSE << [EmptyOp EXCEPT !.operator = "ADD", !.kind = "AdGroup",
                            !.status = "ENABLED", !.parentId = arg.id] >>

createTextAdsOpsShort(s, arg) ==
    [i \in 1..(NUMBER_OF_ADS - 1) |->
        IF s = "GoogleAdsApiOnly"
        THEN [EmptyOp EXCEPT !.operator = "create", !.kind = "Ad",
                             !.status = "PAUSED",
                             !.parentName = arg.resource_name]
        ELSE [EmptyOp EXCEPT !.operator = "ADD", !.kind = "Ad",
                             !.status = "PAUSED", !.parentId = arg.id]]

createTextAdsOps(s, arg) ==
    [i \in 1..NUMBER_OF_ADS |->
        IF s = "GoogleAdsApiOnly"
        THEN [EmptyOp EXCEPT !.operator = "create", !.kind = "Ad",
                             !.status = "PAUSED",
                             !.parentName = arg.resource_name]
        ELSE [EmptyOp EXCEPT !.operator = "ADD", !.kind = "Ad",
                             !.status = "PAUSED", !.parentId = arg.id]]

\* GoogleAdsApiOnly loops over its parameter; BothApisPhase1 loops over the
\* module constant KEYWORDS_TO_ADD and never reads its parameter.
createKeywordsOps(s, arg, keywordstoadd) ==
    IF s = "GoogleAdsApiOnly"
    THEN [i \in 1..Len(keywordstoadd) |->
            [EmptyOp EXCEPT !.operator = "create", !.kind = "Keyword",
                            !.status = "ENABLED",
                            !.parentName = arg.resource_name,
                            !.text = keywordstoadd[i],
                            !.matchType = "EXACT"]]
    ELSE [i \in 1..Len(KEYWORDS_TO_ADD) |->
            [EmptyOp EXCEPT !.operator = "ADD", !.kind = "Keyword",
                            !.status = "PAUSED", !.parentId = arg.id,
                            !.text = KEYWORDS_TO_ADD[i],
                            !.matchType = "BROAD"]]

OpsOf(s, step, arg, keywordstoadd) ==
    CASE step = "Budget" -> createCampaignBudgetOps(s)
      [] step = "Campaign" -> createCampaignOps(s, arg)
      [] step = "AdGroup" -> createAdGroupOps(s, arg)
      [] step = "TextAds" -> createTextAdsOps(s, arg)
      [] OTHER -> createKeywordsOps(s, arg, keywordstoadd)

\* Only the functions that take the Google Ads client read the resource back.
HasSearch(s, step) == ClientOf(s, step) = "GoogleAds"

\* The kind of resource a step creates.
KindOf(step) ==
    CASE step = "TextAds" -> "Ad"
      [] step = "Keywords" -> "Keyword"
      [] OTHER -> step

\* The query of getCampaignBudget, getCampaign, getAdGroup, getAds and
\* getKeywords for the resource names given.
QueryOfFirstOnly(step, names) ==
    IF step = "Keywords"
    THEN [from |-> "Keyword", names |-> SubSeq(names, 1, 1),
          critType |-> "KEYWORD", adGroupStatus |-> "ENABLED",
          statuses |-> {"ENABLED", "PAUSED"}]
    ELSE [NoQuery EXCEPT !.from = KindOf(step), !.names = SubSeq(names, 1, 1)]

QueryOf(step, names) ==
    IF step = "Keywords"
    THEN [from |-> "Keyword", names |-> names, critType |-> "KEYWORD",
          adGroupStatus |-> "ENABLED", statuses |-> {"ENABLED", "PAUSED"}]
    ELSE [NoQuery EXCEPT !.from = KindOf(step), !.names = names]

\* How many results the function indexes in the mutate response.
ResultsRead(step, keywordstoadd) ==
    CASE step = "TextAds" -> NUMBER_OF_ADS
      [] step = "Keywords" -> Len(keywordstoadd)
      [] OTHER -> 1

(***************************************************************************)
(* The remote service.                                                     *)
(***************************************************************************)
ResourceName(kind, id) == <<kind, id>>

\* The resources a mutate creates, the first of them getting id `base`.
Created(ops, base) ==
    {[kind |-> ops[i].kind, id |-> base + i - 1,
      resource_name |-> ResourceName(ops[i].kind, base + i - 1),
      parentId |-> ops[i].parentId, parentName |-> ops[i].parentName,
      status |-> ops[i].status, text |-> ops[i].text,
      matchType |-> ops[i].matchType, amount |-> ops[i].amount,
      critType |-> IF ops[i].kind = "Keyword" THEN "KEYWORD" ELSE ""]
     : i \in 1..Len(ops)}

\* What the mutate response tells about the i-th created resource: the
\* Google Ads API gives its resource name, the AdWords API the object.
MutateResults(client, ops, base) ==
    [i \in 1..Len(ops) |->
        IF client = "GoogleAds"
        THEN [id |-> NoId,
              resource_name |-> ResourceName(ops[i].kind, base + i - 1)]
        ELSE [id |-> base + i - 1, resource_name |-> NoName]]

Fresh(srv, ops, base) ==
    \A i \in 1..Len(ops) :
        \A r \in srv : ~(r.kind = ops[i].kind /\ r.id = base + i - 1)

NamesIn(q) == {q.names[i] : i \in 1..Len(q.names)}

\* The ad group a keyword or an ad belongs to, by either reference.
ParentOf(srv, r) ==
    {p \in srv : p.kind = "AdGroup"
                 /\ (p.resource_name = r.parentName \/ p.id = r.parentId)}

Matches(srv, q, r) ==
    /\ r.kind = q.from
    /\ r.resource_name \in NamesIn(q)
    /\ (q.critType # "" => r.critType = q.critType)
    /\ (q.statuses # {} => r.status \in q.statuses)
    /\ (q.adGroupStatus # "" =>
            \E p \in ParentOf(srv, r) : p.status = q.adGroupStatus)

RECURSIVE RowsOf(_)
RowsOf(S) ==
    IF S = {} THEN <<>>
    ELSE LET r == CHOOSE x \in S : \A y \in S : x.id <= y.id
         IN  <<r>> \o RowsOf(S \ {r})

\* Every resource the query names that passes its filters.
SearchRows(srv, q) == RowsOf({r \in srv : Matches(srv, q, r)})

\* What a search may answer: the service is not bound to return every
\* matching resource, so any part of the matching rows is a possible answer.
SearchAnswers(srv, q) ==
    {RowsOf(T) : T \in SUBSET {r \in srv : Matches(srv, q, r)}}

Outstanding == {i \in 1..Len(log) : log[i].outcome = "pending"}

(***************************************************************************)
(* Initial state: the process has started, nothing is loaded, and the      *)
(* account holds nothing this run has created.                             *)
(***************************************************************************)
Init ==
    /\ script \in Scripts
    /\ pc = MainAt("load_google_ads")
    /\ google_ads_client = "unset"
    /\ adwords_client = "unset"
    /\ keywordsArg = KEYWORDS_TO_ADD
    /\ ret = [s \in Steps |-> Unset]
    /\ newNames = <<>>
    /\ printed = [s \in Steps |-> 0]
    /\ server = {}
    /\ log = <<>>

(***************************************************************************)
(* main, before the pipeline: both scripts load both clients and parse     *)
(* the command line.  Each of the three can raise, which ends the run.     *)
(***************************************************************************)
LoadGoogleAdsClient ==
    /\ pc = MainAt("load_google_ads")
    /\ \/ /\ google_ads_client' = "loaded"
          /\ pc' = MainAt("load_adwords")
       \/ /\ pc' = ErrorPc
          /\ UNCHANGED google_ads_client
    /\ UNCHANGED <<script, adwords_client, keywordsArg, ret, newNames,
                   printed, server, log>>

LoadAdWordsClient ==
    /\ pc = MainAt("load_adwords")
    /\ \/ /\ adwords_client' = "loaded"
          /\ pc' = MainAt("parse_args")
       \/ /\ pc' = ErrorPc
          /\ UNCHANGED adwords_client
    /\ UNCHANGED <<script, google_ads_client, keywordsArg, ret, newNames,
                   printed, server, log>>

ParseArgs ==
    /\ pc = MainAt("parse_args")
    /\ \/ pc' = [fn |-> StepOrder[1], at |-> "mutate"]
       \/ pc' = ErrorPc
    /\ UNCHANGED <<script, google_ads_client, adwords_client, keywordsArg,
                   ret, newNames, printed, server, log>>

(***************************************************************************)
(* A remote call is synchronous: the function waits for the response.      *)
(***************************************************************************)
CallPcAsync(s, step, at) ==
    IF at = "mutate" /\ HasSearch(s, step)
    THEN [fn |-> step, at |-> "search"]
    ELSE AfterStep(step)

CallPc(s, step, at) ==
    [fn |-> step, at |-> IF at = "mutate" THEN "mutate_wait" ELSE "search_wait"]

Request(s, step, method, ops, query) ==
    [client |-> ClientOf(s, step),
     service |-> IF method = "search" THEN "GoogleAdsService"
                 ELSE ServiceOf(s, step),
     method |-> method, step |-> step, ops |-> ops, query |-> query,
     outcome |-> "pending", results |-> <<>>]

\* The function builds its operations and calls the service's mutate.
IssueMutate ==
    /\ pc.fn \in Steps
    /\ pc.at = "mutate"
    /\ log' = Append(log,
                Request(script, pc.fn, "mutate",
                        OpsOf(script, pc.fn, ArgOf(script, pc.fn, ret),
                              keywordsArg),
                        NoQuery))
    /\ pc' = CallPc(script, pc.fn, "mutate")
    /\ UNCHANGED <<script, google_ads_client, adwords_client, keywordsArg,
                   ret, newNames, printed, server>>

\* The mutate call returns or raises.  With the Google Ads client the
\* function keeps the resource names of the response for its search; with
\* the AdWords client it prints the response and returns.
ReturnMutate ==
    /\ pc.fn \in Steps
    /\ pc.at = "mutate_wait"
    /\ \E i \in Outstanding :
        /\ log[i].method = "mutate"
        /\ log[i].step = pc.fn
        /\ \/ /\ log' = [log EXCEPT ![i].outcome = "error"]
              /\ pc' = OnException(pc.fn)
              /\ UNCHANGED <<ret, newNames, printed, server>>
           \/ \E base \in 1..MaxId :
                LET ops == log[i].ops
                    res == MutateResults(log[i].client, ops, base)
                    need == ResultsRead(pc.fn, keywordsArg)
                IN  /\ Fresh(server, ops, base)
                    /\ server' = server \cup Created(ops, base)
                    /\ log' = [log EXCEPT ![i].outcome = "ok",
                                          ![i].results = res]
                    /\ IF log[i].client = "GoogleAds"
                       THEN IF Len(res) < need
                            THEN /\ pc' = OnException(pc.fn)
                                 /\ UNCHANGED <<ret, newNames, printed>>
                            ELSE /\ newNames' =
                                      [k \in 1..need |-> res[k].resource_name]
                                 /\ pc' = [fn |-> pc.fn, at |-> "search"]
                                 /\ UNCHANGED <<ret, printed>>
                       ELSE IF pc.fn \in {"Campaign", "AdGroup"}
                            THEN IF Len(res) = 0
                                 THEN /\ pc' = OnException(pc.fn)
                                      /\ UNCHANGED <<ret, newNames, printed>>
                                 ELSE /\ ret' = [ret EXCEPT ![pc.fn] =
                                            [tag |-> "id", id |-> res[1].id,
                                             resource_name |-> NoName]]
                                      /\ printed' =
                                            [printed EXCEPT ![pc.fn] = @ + 1]
                                      /\ pc' = AfterStep(pc.fn)
                                      /\ UNCHANGED newNames
                            ELSE /\ ret' = [ret EXCEPT ![pc.fn] = PyNone]
                                 /\ printed' =
                                      [printed EXCEPT ![pc.fn] = @ + Len(res)]
                                 /\ pc' = AfterStep(pc.fn)
                                 /\ UNCHANGED newNames
    /\ UNCHANGED <<script, google_ads_client, adwords_client, keywordsArg>>

\* get<Resource>: the search for the resource names just created.
IssueSearch ==
    /\ pc.fn \in Steps
    /\ pc.at = "search"
    /\ log' = Append(log,
                Request(script, pc.fn, "search", <<>>,
                        QueryOf(pc.fn, newNames)))
    /\ pc' = CallPc(script, pc.fn, "search")
    /\ UNCHANGED <<script, google_ads_client, adwords_client, keywordsArg,
                   ret, newNames, printed, server>>

\* The search returns its rows or raises.  The single-resource functions
\* take row 0 and return it; getAds and getKeywords return every row, and
\* their callers print one line per row and return None.
ReturnSearch ==
    /\ pc.fn \in Steps
    /\ pc.at = "search_wait"
    /\ \E i \in Outstanding :
        /\ log[i].method = "search"
        /\ log[i].step = pc.fn
        /\ \/ /\ log' = [log EXCEPT ![i].outcome = "error"]
              /\ pc' = OnException(pc.fn)
              /\ UNCHANGED <<ret, printed>>
           \/ \E rows \in SearchAnswers(server, log[i].query) :
                  /\ log' = [log EXCEPT ![i].outcome = "ok",
                               ![i].results =
                                  [k \in 1..Len(rows) |->
                                     [id |-> rows[k].id,
                                      resource_name |-> rows[k].resource_name]]]
                  /\ IF pc.fn \in {"TextAds", "Keywords"}
                     THEN /\ ret' = [ret EXCEPT ![pc.fn] = PyNone]
                          /\ printed' =
                                [printed EXCEPT ![pc.fn] = @ + Len(rows)]
                          /\ pc' = AfterStep(pc.fn)
                     ELSE IF Len(rows) = 0
                          THEN /\ pc' = OnException(pc.fn)
                               /\ UNCHANGED <<ret, printed>>
                          ELSE /\ ret' = [ret EXCEPT ![pc.fn] =
                                    [tag |-> "obj", id |-> rows[1].id,
                                     resource_name |-> rows[1].resource_name]]
                               /\ printed' = [printed EXCEPT ![pc.fn] = @ + 1]
                               /\ pc' = AfterStep(pc.fn)
    /\ UNCHANGED <<script, google_ads_client, adwords_client, keywordsArg,
                   newNames, server>>

Pipeline == IssueMutate \/ ReturnMutate \/ IssueSearch \/ ReturnSearch

Next == LoadGoogleAdsClient \/ LoadAdWordsClient \/ ParseArgs \/ Pipeline

Spec == Init /\ [][Next]_vars

(***************************************************************************)
(* createKeywords called on its own: an ad group exists, the caller passes *)
(* any list of at most MaxKwLen keywords.                                  *)
(***************************************************************************)
KeywordLists == UNION {[1..n -> KwUniverse] : n \in 0..MaxKwLen}

AdGroupResource(g) ==
    [kind |-> "AdGroup", id |-> g, resource_name |-> ResourceName("AdGroup", g),
     parentId |-> NoId, parentName |-> NoName, status |-> "ENABLED",
     text |-> "", matchType |-> "", amount |-> 0, critType |-> ""]

InitKw ==
    /\ script \in Scripts
    /\ pc = [fn |-> "Keywords", at |-> "mutate"]
    /\ google_ads_client = "loaded"
    /\ adwords_client = "loaded"
    /\ keywordsArg \in KeywordLists
    /\ \E g \in 1..MaxId :
        /\ server = {AdGroupResource(g)}
        /\ ret = [s \in Steps |->
                    IF s # "AdGroup" THEN Unset
                    ELSE IF script = "GoogleAdsApiOnly"
                         THEN [tag |-> "obj", id |-> g,
                               resource_name |-> ResourceName("AdGroup", g)]
                         ELSE [tag |-> "id", id |-> g,
                               resource_name |-> NoName]]
    /\ newNames = <<>>
    /\ printed = [s \in Steps |-> 0]
    /\ log = <<>>

SpecKw == InitKw /\ [][Pipeline]_vars

(***************************************************************************)
(* Properties.                                                             *)
(***************************************************************************)
MutateLog == SelectSeq(log, LAMBDA r : r.method = "mutate")

MutatesOf(step) ==
    {i \in 1..Len(log) : log[i].method = "mutate" /\ log[i].step = step}

SearchesOf(step) ==
    {i \in 1..Len(log) : log[i].method = "search" /\ log[i].step = step}

OpsIn(i) == {log[i].ops[k] : k \in 1..Len(log[i].ops)}

\* C1: the create requests are issued in the order Budget, Campaign,
\* AdGroup, TextAds, Keywords; each one only after the one before it has
\* returned successfully; none is skipped or repeated.
C1_FixedOrder ==
    LET order == <<"Budget", "Campaign", "AdGroup", "TextAds", "Keywords">>
    IN  /\ Len(MutateLog) <= 5
        /\ \A k \in 1..Len(MutateLog) : MutateLog[k].step = order[k]
        /\ \A k \in 2..Len(MutateLog) : MutateLog[k - 1].outcome = "ok"
        /\ (pc = DonePc => Len(MutateLog) = 5)

C1_Witness ==
    /\ pc = DonePc
    /\ Len(MutateLog) = 5
    /\ MutateLog[5].step = "Keywords"

\* The parent a created resource of this kind refers to.
ParentKind(kind) ==
    CASE kind = "Campaign" -> "Budget"
      [] kind = "AdGroup" -> "Campaign"
      [] OTHER -> "AdGroup"

ParentExists(op) ==
    /\ op.parentName # NoName \/ op.parentId # NoId
    /\ \E r \in server :
        /\ r.kind = ParentKind(op.kind)
        /\ op.parentName # NoName => r.resource_name = op.parentName
        /\ op.parentId # NoId => r.id = op.parentId

\* An earlier mutate of this run has succeeded and created the parent.
ParentCreatedBefore(i, op) ==
    \E j \in 1..(i - 1) :
        /\ log[j].method = "mutate"
        /\ log[j].outcome = "ok"
        /\ \E k \in 1..Len(log[j].ops) : log[j].ops[k].kind = ParentKind(op.kind)

\* C2: whenever a create request for a campaign, ad group, ad or keyword
\* has been submitted, the parent each operation references exists
\* server-side, created by an earlier successful create of this run.
C2_ParentExists ==
    \A i \in 1..Len(log) :
        (log[i].method = "mutate" /\ log[i].step # "Budget") =>
            \A op \in OpsIn(i) : ParentExists(op) /\ ParentCreatedBefore(i, op)

C2_Witness ==
    \E i \in MutatesOf("Keywords") :
        /\ log[i].outcome = "pending"
        /\ OpsIn(i) # {}

ResultExists(res) ==
    \E r \in server :
        /\ res.resource_name # NoName => r.resource_name = res.resource_name
        /\ res.id # NoId => r.id = res.id

\* C3: a failed remote call ends the run in the error state with nothing
\* issued after it; no request ever carries a remove operation; whatever
\* the earlier creates returned still exists server-side.
C3_AbortNoRollback ==
    /\ \A i \in 1..Len(log) :
        log[i].outcome = "error" => (pc = ErrorPc /\ i = Len(log))
    /\ \A i \in 1..Len(log) :
        \A op \in OpsIn(i) : op.operator \in {"create", "ADD"}
    /\ \A i \in 1..Len(log) :
        (log[i].method = "mutate" /\ log[i].outcome = "ok") =>
            \A k \in 1..Len(log[i].results) : ResultExists(log[i].results[k])

C3_Witness ==
    /\ pc = ErrorPc
    /\ Len(log) >= 5
    /\ log[Len(log)].outcome = "error"
    /\ log[Len(log)].step = "AdGroup"
    /\ \E r \in server : r.kind = "Campaign"

\* C4: every create request is issued at most once, every search at most
\* once, and a request that failed is the last request of the run.
C4_NoRetry ==
    /\ \A s \in Steps : Cardinality(MutatesOf(s)) <= 1
    /\ \A s \in Steps : Cardinality(SearchesOf(s)) <= 1
    /\ \A i \in 1..Len(log) : log[i].outcome = "error" => i = Len(log)

C4_Witness ==
    /\ pc = ErrorPc
    /\ Len(log) = 1
    /\ log[1].method = "mutate"
    /\ log[1].outcome = "error"

\* C5: at most one request is outstanding, and it is the one issued last:
\* every request before it has been answered.
C5_OneOutstanding ==
    /\ Cardinality(Outstanding) <= 1
    /\ \A i \in 1..Len(log) : i < Len(log) => log[i].outcome # "pending"

C5_Witness ==
    /\ Len(log) >= 2
    /\ Outstanding = {Len(log)}
    /\ log[Len(log)].method = "search"

\* C6: the ads go in one mutate request of exactly 5 create operations, the
\* keywords in one mutate request with one operation per keyword, and the
\* keyword request is issued only after the ad request has returned.
C6_Batches ==
    LET ads == {i \in 1..Len(log) : \E op \in OpsIn(i) : op.kind = "Ad"}
        kws == {i \in 1..Len(log) : \E op \in OpsIn(i) : op.kind = "Keyword"}
    IN  /\ Cardinality(ads) <= 1
        /\ Cardinality(kws) <= 1
        /\ (pc = DonePc => Cardinality(ads) = 1 /\ Cardinality(kws) = 1)
        /\ \A i \in MutatesOf("TextAds") : i \in ads
        /\ \A i \in MutatesOf("Keywords") : i \in kws
        /\ \A i \in ads :
            /\ Len(log[i].ops) = 5
            /\ \A op \in OpsIn(i) : op.kind = "Ad"
        /\ \A i \in kws :
            /\ Len(log[i].ops) = 2
            /\ [k \in 1..2 |-> log[i].ops[k].text]
                  = <<"mars cruise", "space hotel">>
            /\ \A op \in OpsIn(i) : op.kind = "Keyword"
            /\ \E j \in ads : j < i /\ log[j].outcome = "ok"

C6_Witness ==
    /\ pc = DonePc
    /\ \E i \in MutatesOf("TextAds") : Len(log[i].ops) = 5
    /\ \E i \in MutatesOf("Keywords") : Len(log[i].ops) = 2

\* The operation refers to what step `src` has returned to main.
RefersTo(op, src) ==
    /\ op.parentName # NoName \/ op.parentId # NoId
    /\ op.parentName # NoName => op.parentName = ret[src].resource_name
    /\ op.parentId # NoId => op.parentId = ret[src].id

\* C7 as stated: every step after the first references what the step
\* immediately before it returned, Keywords what TextAds returned.
C7_PreviousStepRef ==
    \A i \in 1..Len(log) : \A op \in OpsIn(i) :
        /\ log[i].step = "Campaign" => RefersTo(op, "Budget")
        /\ log[i].step = "AdGroup" => RefersTo(op, "Campaign")
        /\ log[i].step = "TextAds" => RefersTo(op, "AdGroup")
        /\ log[i].step = "Keywords" => RefersTo(op, "TextAds")

\* C7, amended: Campaign references what the Budget step returned, AdGroup
\* what the Campaign step returned, and TextAds and Keywords both reference
\* what the AdGroup step returned (the TextAds step returns None).
C7_ParentRef ==
    /\ \A i \in 1..Len(log) : \A op \in OpsIn(i) :
        /\ log[i].step = "Campaign" => RefersTo(op, "Budget")
        /\ log[i].step = "AdGroup" => RefersTo(op, "Campaign")
        /\ log[i].step = "TextAds" => RefersTo(op, "AdGroup")
        /\ log[i].step = "Keywords" => RefersTo(op, "AdGroup")
    /\ ret["TextAds"].tag \in {"unset", "None"}

C7_Witness ==
    /\ ret["TextAds"].tag = "None"
    /\ \E i \in MutatesOf("Keywords") : Len(log[i].ops) = 2

\* C8: createKeywords submits one create operation per element of the list
\* it is passed, with that element as the keyword text, whatever the list.
C8_OneOpPerElement ==
    \A i \in MutatesOf("Keywords") :
        /\ Len(log[i].ops) = Len(keywordsArg)
        /\ \A k \in 1..Len(log[i].ops) : log[i].ops[k].text = keywordsArg[k]

\* C9: the budget create carries 500000 micros, and every keyword create
\* carries BROAD in BothApisPhase1 and EXACT in GoogleAdsApiOnly.
C9_Literals ==
    \A i \in 1..Len(log) : \A op \in OpsIn(i) :
        /\ log[i].step = "Budget" => op.amount = 500000
        /\ log[i].step = "Keywords" =>
              op.matchType = (IF script = "BothApisPhase1" THEN "BROAD"
                              ELSE "EXACT")

C9_Witness ==
    /\ pc = DonePc
    /\ \E i \in MutatesOf("Budget") : OpsIn(i) # {}
    /\ \E i \in MutatesOf("Keywords") : Cardinality(OpsIn(i)) = 2

\* C10: a run of GoogleAdsApiOnly never touches the AdWords client: it
\* is not loaded, and every request goes through the Google Ads client.
C10_NoAdWords ==
    script = "GoogleAdsApiOnly" =>
        /\ adwords_client = "unset"
        /\ \A i \in 1..Len(log) : log[i].client = "GoogleAds"

\* The resource names a mutate response carries, in order.
NamesReturned(i) ==
    [k \in 1..Len(log[i].results) |-> log[i].results[k].resource_name]

\* C11: a search comes right after the successful create of the same step
\* and queries exactly the resource names that create returned; a create
\* that follows a Google Ads create comes only after that step's search.  A
\* successful run of GoogleAdsApiOnly issues five mutates and five searches,
\* alternating; BothApisPhase1 searches only after the budget create.
C11_CreateThenFetch ==
    /\ \A i \in 1..Len(log) :
        log[i].method = "search" =>
            /\ i > 1
            /\ log[i - 1].method = "mutate"
            /\ log[i - 1].step = log[i].step
            /\ log[i - 1].outcome = "ok"
            /\ Len(log[i].query.names) >= 1
            /\ log[i].query.names = NamesReturned(i - 1)
    /\ \A j \in 2..Len(log) :
        (log[j].method = "mutate" /\ log[j - 1].client = "GoogleAds") =>
            (log[j - 1].method = "search" /\ log[j - 1].outcome = "ok")
    /\ (script = "GoogleAdsApiOnly" /\ pc = DonePc) =>
            /\ Len(log) = 10
            /\ \A i \in 1..10 :
                log[i].method = (IF i % 2 = 1 THEN "mutate" ELSE "search")
    /\ script = "BothApisPhase1" =>
            /\ \A i \in 1..Len(log) :
                log[i].method = "search" => log[i].step = "Budget"
            /\ pc = DonePc => (Len(log) = 6 /\ log[2].method = "search")

C11_Witness ==
    /\ script = "GoogleAdsApiOnly"
    /\ pc = DonePc
    /\ \E i \in SearchesOf("TextAds") : Len(log[i].query.names) = 5
    /\ \E i \in SearchesOf("Keywords") : Len(log[i].query.names) = 2

\* C12: in every state of a run, successful or aborted, a campaign that
\* exists server-side has status PAUSED: it is created PAUSED, and the only
\* operation that ever names a campaign as its own kind is that create.
C12_CampaignPaused ==
    /\ \A r \in server : r.kind = "Campaign" => r.status = "PAUSED"
    /\ \A i \in 1..Len(log) : \A op \in OpsIn(i) :
        op.kind = "Campaign" =>
            /\ log[i].step = "Campaign"
            /\ op.status = "PAUSED"
            /\ op.operator \in {"create", "ADD"}
    /\ Cardinality({r \in server : r.kind = "Campaign"}) <= 1

C12_Witness ==
    /\ pc = DonePc
    /\ \E r \in server : r.kind = "Campaign" /\ r.status = "PAUSED"
    /\ \E r \in server : r.kind = "AdGroup"
    /\ \E r \in server : r.kind = "Ad"
    /\ \E r \in server : r.kind = "Keyword"

\* Every search of the run has returned every existing resource that its
\* query names and that passes the query's filters.
SearchesFaithful ==
    \A i \in 1..Len(log) :
        (log[i].method = "search" /\ log[i].outcome = "ok") =>
            LET all == SearchRows(server, log[i].query)
            IN  /\ Len(log[i].results) = Len(all)
                /\ \A k \in 1..Len(all) :
                    log[i].results[k].resource_name = all[k].resource_name

ReportedNames(step) ==
    UNION {{log[i].results[k].resource_name : k \in 1..Len(log[i].results)}
           : i \in SearchesOf(step)}

\* C13: when every search has been answered in full, a successful run of
\* GoogleAdsApiOnly has printed one line for the budget, the campaign and
\* the ad group, 5 lines for the ads and one line per submitted keyword,
\* and what it reports are the resources it created: the filters of
\* getKeywords exclude none of the keywords just created.
C13_AllReported ==
    (script = "GoogleAdsApiOnly" /\ pc = DonePc /\ SearchesFaithful) =>
        /\ printed["Budget"] = 1
        /\ printed["Campaign"] = 1
        /\ printed["AdGroup"] = 1
        /\ printed["TextAds"] = 5
        /\ printed["Keywords"] = 2
        /\ \A i \in MutatesOf("Keywords") :
              printed["Keywords"] = Len(log[i].ops)
        /\ \A r \in server :
              r.resource_name \in ReportedNames(
                  CASE r.kind = "Ad" -> "TextAds"
                    [] r.kind = "Keyword" -> "Keywords"
                    [] OTHER -> r.kind)

C13_Witness ==
    /\ script = "GoogleAdsApiOnly"
    /\ pc = DonePc
    /\ SearchesFaithful
    /\ printed["Keywords"] = 2
    /\ Cardinality({r \in server : r.kind = "Keyword"}) = 2

====
